---- MODULE Spec2Model ----
(***************************************************************************)
(* Perspective by Adi API: the two application modules of the repository   *)
(* (src/main.py and src/backend/main.py) over one document store.          *)
(*                                                                         *)
(* A request is handled by a worker.  Each store operation of a handler    *)
(* (find_one, insert_one, insert_many, delete_one, find, count_documents)  *)
(* is one step, so that handlers of concurrent requests interleave between *)
(* their store operations, as they do under the HTTP runtime.              *)
(***************************************************************************)
EXTENDS Integers, Sequences, FiniteSets, TLC

\* ------------------------------------------------------------------ bounds
MaxOid == 5         \* documents the store creates under Spec
MaxImageOid == 3    \* documents the store creates under SpecImages
MaxListOid == 4     \* documents the store creates under SpecLists
MaxUploadMB == 2    \* MAX_UPLOAD_MB is configured up to this
MaxSide == 4        \* RESIZE_MAX_SIDE is configured up to this
MaxDim == 6         \* sides of a decoded image, in pixels

\* Two requests in flight at once: the fewest whose handlers interleave.
Workers == {1, 2}

\* Python's None.  No payload string of the model is spelled like it.
None == "None"

\* ------------------------------------------------------------ input domains
Names == {"Portraits", "Studio"}
Slugs == {"portraits", "misc"}
\* A category_slug as a query parameter: absent, empty, or a slug.
SlugParams == {None, ""} \cup Slugs
OwnerKeys == {"s3cret", "dev-owner-key", "wrong"}
\* OWNER_KEY in the environment: unset, or set to the secret.
EnvOwnerKeys == {None, "s3cret"}

VARIABLES
    variant,      \* which application module serves: "main" (src/main.py) or "backend" (src/backend/main.py)
    envOwnerKey,  \* os.getenv("OWNER_KEY")
    MAX_UPLOAD_MB,    \* src/main.py configuration, read from the environment at import
    RESIZE_MAX_SIDE,
    JPEG_QUALITY,
    WEBP_QUALITY,
    category,     \* db["category"]: a set of documents
    folder,       \* db["folder"]
    image,        \* db["image"]
    nextOid,      \* the next ObjectId the store hands out
    now,          \* datetime.utcnow(), in ticks
    files,        \* names of the regular files in UPLOAD_DIR
    pc,           \* pc[w]: where worker w is in its handler
    req,          \* req[w]: the request worker w is handling
    loc,          \* loc[w]: the handler's local variables
    resp,         \* resp[w]: the response, once the handler has returned or raised
    seededOk      \* history: some POST /admin/seed has returned successfully

vars == <<variant, envOwnerKey, MAX_UPLOAD_MB, RESIZE_MAX_SIDE, JPEG_QUALITY, WEBP_QUALITY, category, folder, image, nextOid, now, files, pc, req, loc, resp, seededOk>>

config == <<variant, envOwnerKey, MAX_UPLOAD_MB, RESIZE_MAX_SIDE, JPEG_QUALITY, WEBP_QUALITY>>
store == <<category, folder, image, nextOid>>

NoReq == [op |-> "none"]
NoLoc == [none |-> TRUE]
NoResp == [status |-> 0]

\* ------------------------------------------------------------ the store
\* A pymongo filter is a map from field names to required values.
EmptyFilter == [k \in {} |-> None]

Matches(d, filt) == \A k \in DOMAIN filt : k \in DOMAIN d /\ d[k] = filt[k]

\* Collection.find(filt)
Find(col, filt) == {d \in col : Matches(d, filt)}

\* Collection.find_one(filt) is truthy iff some document matches.
FindOneHit(col, filt) == Find(col, filt) # {}

\* bson.ObjectId.  The 24-hex-digit string of the n-th ObjectId the store hands
\* out is written n (n >= 1); 0 is a string that is not 24 hex digits.
ObjectId(s) == [oid |-> s]
str(o) == o.oid
is_valid(s) == s >= 1

WithId(doc, n) == [k \in DOMAIN doc \cup {"_id"} |-> IF k = "_id" THEN ObjectId(n) ELSE doc[k]]

\* Collection.insert_one(doc): the store gives the document the next _id.
InsertOne(col, doc) == col \cup {WithId(doc, nextOid)}

\* Collection.count_documents({})
CountDocuments(col) == Cardinality(col)

SerializedId(id) == [id |-> id]

HTTPException(code, detail) == [status |-> code, detail |-> detail]
OK(body) == [status |-> 200, body |-> body]

\* A worker returns or raises: its response is set and its handler is over.
Respond(w, r) ==
    /\ pc' = [pc EXCEPT ![w] = "done"]
    /\ resp' = [resp EXCEPT ![w] = r]

\* The client has its response; the worker is free for the next request.
Return(w) ==
    /\ pc[w] = "done"
    /\ pc' = [pc EXCEPT ![w] = "idle"]
    /\ req' = [req EXCEPT ![w] = NoReq]
    /\ loc' = [loc EXCEPT ![w] = NoLoc]
    /\ resp' = [resp EXCEPT ![w] = NoResp]
    /\ UNCHANGED <<config, now, store, files, seededOk>>

\* ------------------------------------------------------------ categories
SlugFilter(slug) == [k \in {"slug"} |-> slug]

\* database.create_document of src/main.py's deployment: one insert_one, the new
\* id returned as a string.
main_create_document(col, doc) == InsertOne(col, doc)

\* datetime.isoformat(): the instant as a string.
isoformat(t) == "T+" \o ToString(t)

\* A stamping that leaves updated_at empty.
StampedAtCreationOnly(d, stamp) ==
    [k \in DOMAIN d \cup {"created_at", "updated_at"} |->
        IF k = "created_at" THEN stamp ELSE IF k = "updated_at" THEN "" ELSE d[k]]

\* d["created_at"] = now; d["updated_at"] = now
Stamped(d, stamp) ==
    [k \in DOMAIN d \cup {"created_at", "updated_at"} |->
        IF k \in {"created_at", "updated_at"} THEN stamp ELSE d[k]]

\* src/backend/database.py create_document, the single-record branch, as the
\* store is left by it.
create_document(col, doc) == InsertOne(col, Stamped(doc, isoformat(now)))

CategoryDoc(name, slug) == [name |-> name, slug |-> slug]

\* src/main.py create_category, up to find_one: raise on a stored slug.
create_category(w, name, slug) ==
    /\ variant = "main"
    /\ pc[w] = "idle"
    /\ req' = [req EXCEPT ![w] = [op |-> "create_category", name |-> name, slug |-> slug]]
    /\ IF FindOneHit(category, SlugFilter(slug))
          THEN /\ Respond(w, HTTPException(400, "Category slug already exists"))
               /\ loc' = loc
          ELSE /\ pc' = [pc EXCEPT ![w] = "create_category_insert"]
               /\ loc' = [loc EXCEPT ![w] = [name |-> name, slug |-> slug]]
               /\ resp' = resp
    /\ UNCHANGED <<config, now, store, files, seededOk>>

\* src/main.py create_category, create_document and the return.
create_category_insert(w) ==
    /\ pc[w] = "create_category_insert"
    /\ category' = main_create_document(category, CategoryDoc(loc[w].name, loc[w].slug))
    /\ nextOid' = nextOid + 1
    /\ Respond(w, OK(SerializedId(str(ObjectId(nextOid)))))
    /\ UNCHANGED <<config, now, folder, image, files, req, loc, seededOk>>

\* src/backend/main.py create_category: create_document with no check before it.
backend_create_category(w, name, slug) ==
    /\ variant = "backend"
    /\ pc[w] = "idle"
    /\ req' = [req EXCEPT ![w] = [op |-> "create_category", name |-> name, slug |-> slug]]
    /\ category' = create_document(category, CategoryDoc(name, slug))
    /\ nextOid' = nextOid + 1
    /\ Respond(w, OK(CategoryDoc(name, slug)))
    /\ UNCHANGED <<config, now, folder, image, files, loc, seededOk>>

\* ------------------------------------------------------------ admin seed
\* src/main.py admin_seed: base_categories.
main_base_categories ==
    << CategoryDoc("Weddings", "weddings"), CategoryDoc("Portraits", "portraits"),
       CategoryDoc("Events", "events"), CategoryDoc("Travel", "travel") >>

\* src/backend/main.py seed: base_categories.
backend_base_categories ==
    << CategoryDoc("Portraits", "portraits"), CategoryDoc("Events", "events"),
       CategoryDoc("Street", "street") >>

SeedReq(key) == [op |-> "seed", owner_key |-> key, after_seed |-> seededOk]

\* src/main.py admin_seed: the owner key check.
admin_seed(w, key) ==
    /\ variant = "main"
    /\ pc[w] = "idle"
    /\ req' = [req EXCEPT ![w] = SeedReq(key)]
    /\ loc' = [loc EXCEPT ![w] = [i |-> 1, created |-> 0]]
    /\ LET expected == envOwnerKey IN
       IF expected = None \/ key # expected
          THEN Respond(w, HTTPException(401, "Unauthorized"))
          ELSE /\ pc' = [pc EXCEPT ![w] = "admin_seed_find"]
               /\ resp' = resp
    /\ UNCHANGED <<config, now, store, files, seededOk>>

\* The loop of admin_seed moves to the next base category, or leaves the loop.
SeedLoopNext(w, created) ==
    /\ loc' = [loc EXCEPT ![w] = [i |-> loc[w].i + 1, created |-> created]]
    /\ pc' = [pc EXCEPT ![w] =
                IF loc[w].i + 1 > Len(main_base_categories) THEN "admin_seed_count" ELSE "admin_seed_find"]

\* admin_seed_find with the existence check lost: every base category counts as missing.
admin_seed_find_unchecked(w) ==
    /\ pc[w] = "admin_seed_find"
    /\ pc' = [pc EXCEPT ![w] = "admin_seed_insert"]
    /\ UNCHANGED <<config, now, store, files, req, loc, resp, seededOk>>

\* src/main.py admin_seed: find_one for the base category at hand.
admin_seed_find(w) ==
    /\ pc[w] = "admin_seed_find"
    /\ IF FindOneHit(category, SlugFilter(main_base_categories[loc[w].i].slug))
          THEN SeedLoopNext(w, loc[w].created)
          ELSE /\ pc' = [pc EXCEPT ![w] = "admin_seed_insert"]
               /\ loc' = loc
    /\ UNCHANGED <<config, now, store, files, req, resp, seededOk>>

\* src/main.py admin_seed: insert_one of the base category found missing.
admin_seed_insert(w) ==
    /\ pc[w] = "admin_seed_insert"
    /\ category' = InsertOne(category, main_base_categories[loc[w].i])
    /\ nextOid' = nextOid + 1
    /\ SeedLoopNext(w, loc[w].created + 1)
    /\ UNCHANGED <<config, now, folder, image, files, req, resp, seededOk>>

\* src/main.py admin_seed: count_documents and the return.
admin_seed_count(w) ==
    /\ pc[w] = "admin_seed_count"
    /\ Respond(w, OK([seeded |-> loc[w].created, total_categories |-> CountDocuments(category)]))
    /\ seededOk' = TRUE
    /\ UNCHANGED <<config, now, store, files, req, loc>>

\* src/backend/main.py OWNER_KEY
OWNER_KEY == IF envOwnerKey = None THEN "dev-owner-key" ELSE envOwnerKey

\* src/backend/main.py seed: the owner key check.
seed(w, key) ==
    /\ variant = "backend"
    /\ pc[w] = "idle"
    /\ req' = [req EXCEPT ![w] = SeedReq(key)]
    /\ loc' = [loc EXCEPT ![w] = [to_create |-> <<>>, created |-> 0]]
    /\ IF key # OWNER_KEY
          THEN Respond(w, HTTPException(401, "Unauthorized"))
          ELSE /\ pc' = [pc EXCEPT ![w] = "seed_get"]
               /\ resp' = resp
    /\ UNCHANGED <<config, now, store, files, seededOk>>

\* [c for c in base_categories if c["slug"] not in existing]
RECURSIVE Missing(_, _)
Missing(base, existing) ==
    IF base = <<>> THEN <<>>
    ELSE (IF Head(base).slug \in existing THEN <<>> ELSE <<Head(base)>>) \o Missing(Tail(base), existing)

\* src/backend/main.py seed: get_documents, and the return when nothing is missing.
seed_get(w) ==
    /\ pc[w] = "seed_get"
    /\ LET existing == {c.slug : c \in Find(category, EmptyFilter)}
           to_create == Missing(backend_base_categories, existing)
       IN  /\ loc' = [loc EXCEPT ![w] = [to_create |-> to_create, created |-> 0]]
           /\ IF to_create # <<>>
                 THEN /\ pc' = [pc EXCEPT ![w] = "seed_create"]
                      /\ UNCHANGED <<resp, seededOk>>
                 ELSE /\ Respond(w, OK([status |-> "seeded"]))
                      /\ seededOk' = TRUE
    /\ UNCHANGED <<config, now, store, files, req>>

\* Collection.insert_many(docs): the documents get consecutive _ids.
InsertMany(col, docs) == col \cup {WithId(docs[j], nextOid + j - 1) : j \in 1..Len(docs)}

\* src/backend/main.py seed: create_document of the missing ones (the bulk
\* branch of src/backend/database.py create_document), and the return.
\* loc.created counts the documents this call inserted.
seed_create(w) ==
    /\ pc[w] = "seed_create"
    /\ category' = InsertMany(category, [j \in 1..Len(loc[w].to_create) |->
                                             Stamped(loc[w].to_create[j], isoformat(now))])
    /\ nextOid' = nextOid + Len(loc[w].to_create)
    /\ loc' = [loc EXCEPT ![w].created = Len(loc[w].to_create)]
    /\ Respond(w, OK([status |-> "seeded"]))
    /\ seededOk' = TRUE
    /\ UNCHANGED <<config, now, folder, image, files, req>>

\* ------------------------------------------------------------ listing
\* serialize_doc of src/main.py: _id leaves, its string comes in as id.
serialize_doc(doc) ==
    [k \in (DOMAIN doc \ {"_id"}) \cup {"id"} |-> IF k = "id" THEN str(doc["_id"]) ELSE doc[k]]

\* A response_model of src/backend/main.py keeps the schema's fields only.
response_model(doc, fields) == [k \in fields |-> doc[k]]

CategoryFields == {"name", "slug"}
FolderFields == {"category_slug", "parent_id"}
ImageFields == {"url", "category_slug", "folder_id"}

\* Python truthiness of an Optional[str]: None and "" are falsy.
Truthy(v) == v # None /\ v # ""

\* An Optional[int] is <<>> for None and <<n>> for n; None and 0 are falsy.
TruthyInt(l) == l # <<>> /\ l[1] # 0

\* cursor.limit(n) keeps n documents, or all when there are fewer.  Which ones
\* depends on the cursor's order; any n of them are a possible outcome.
Limited(docs, limit) ==
    IF TruthyInt(limit)
    THEN {T \in SUBSET docs : Cardinality(T) = IF limit[1] < Cardinality(docs) THEN limit[1] ELSE Cardinality(docs)}
    ELSE {docs}

\* database.get_documents of src/main.py's deployment: find, limit, the documents as stored.
main_get_documents(col, filter_dict, limit) == Limited(Find(col, filter_dict), limit)

\* src/backend/database.py get_documents: find, limit; each document's _id popped into id.
get_documents(col, filter_dict, limit) ==
    {{serialize_doc(d) : d \in T} : T \in Limited(Find(col, filter_dict), limit)}

\* A response list, one item per document; the items are keyed by the
\* document's id string in place of their position in the list.
ListBody(docs) == [n \in {d.id : d \in docs} |-> CHOOSE d \in docs : d.id = n]

\* The same through response_model=List[...]: each item keeps the model's fields.
ModelListBody(docs, fields) ==
    [n \in {d.id : d \in docs} |-> response_model(CHOOSE d \in docs : d.id = n, fields)]

\* src/main.py list_categories
list_categories(w) ==
    /\ variant = "main"
    /\ pc[w] = "idle"
    /\ req' = [req EXCEPT ![w] = [op |-> "list_categories"]]
    /\ \E docs \in main_get_documents(category, EmptyFilter, <<>>) :
          Respond(w, OK(ListBody({serialize_doc(d) : d \in docs})))
    /\ UNCHANGED <<config, now, store, files, loc, seededOk>>

\* src/backend/main.py list_categories
backend_list_categories(w) ==
    /\ variant = "backend"
    /\ pc[w] = "idle"
    /\ req' = [req EXCEPT ![w] = [op |-> "list_categories"]]
    /\ \E items \in get_documents(category, EmptyFilter, <<>>) :
          Respond(w, OK(ModelListBody(items, CategoryFields)))
    /\ UNCHANGED <<config, now, store, files, loc, seededOk>>

\* The filter a list handler builds from its query parameters.
FilterOf(keys, category_slug, other_key, other) ==
    [k \in keys |-> IF k = "category_slug" THEN category_slug ELSE other]

\* list_folders_filt with the category filtered on the folder's own slug field.
list_folders_filt_slug(category_slug, parent_id) ==
    [k \in (IF Truthy(category_slug) THEN {"slug"} ELSE {})
           \cup (IF Truthy(parent_id) THEN {"parent_id"} ELSE {})
       |-> IF k = "slug" THEN category_slug ELSE parent_id]

\* src/main.py list_folders: filt
list_folders_filt(category_slug, parent_id) ==
    FilterOf((IF Truthy(category_slug) THEN {"category_slug"} ELSE {})
             \cup (IF Truthy(parent_id) THEN {"parent_id"} ELSE {}),
             category_slug, "parent_id", parent_id)

\* src/backend/main.py list_folders: query
backend_list_folders_query(category_slug, parent_id) ==
    FilterOf((IF Truthy(category_slug) THEN {"category_slug"} ELSE {})
             \cup (IF parent_id # None THEN {"parent_id"} ELSE {}),
             category_slug, "parent_id", parent_id)

\* src/main.py list_images: filt; src/backend/main.py list_images: query
list_images_filt(category_slug, folder_id) ==
    FilterOf((IF Truthy(category_slug) THEN {"category_slug"} ELSE {})
             \cup (IF Truthy(folder_id) THEN {"folder_id"} ELSE {}),
             category_slug, "folder_id", folder_id)

ListFoldersReq(cs, pid) == [op |-> "list_folders", category_slug |-> cs, parent_id |-> pid]
ListImagesReq(cs, fid, limit) == [op |-> "list_images", category_slug |-> cs, folder_id |-> fid, limit |-> limit]

\* src/main.py list_folders
list_folders(w, category_slug, parent_id) ==
    /\ variant = "main"
    /\ pc[w] = "idle"
    /\ req' = [req EXCEPT ![w] = ListFoldersReq(category_slug, parent_id)]
    /\ \E docs \in main_get_documents(folder, list_folders_filt(category_slug, parent_id), <<>>) :
          Respond(w, OK(ListBody({serialize_doc(d) : d \in docs})))
    /\ UNCHANGED <<config, now, store, files, loc, seededOk>>

\* src/backend/main.py list_folders
backend_list_folders(w, category_slug, parent_id) ==
    /\ variant = "backend"
    /\ pc[w] = "idle"
    /\ req' = [req EXCEPT ![w] = ListFoldersReq(category_slug, parent_id)]
    /\ \E items \in get_documents(folder, backend_list_folders_query(category_slug, parent_id), <<>>) :
          Respond(w, OK(ModelListBody(items, FolderFields)))
    /\ UNCHANGED <<config, now, store, files, loc, seededOk>>

\* src/main.py list_images
list_images(w, category_slug, folder_id, limit) ==
    /\ variant = "main"
    /\ pc[w] = "idle"
    /\ req' = [req EXCEPT ![w] = ListImagesReq(category_slug, folder_id, limit)]
    /\ \E docs \in main_get_documents(image, list_images_filt(category_slug, folder_id), limit) :
          Respond(w, OK(ListBody({serialize_doc(d) : d \in docs})))
    /\ UNCHANGED <<config, now, store, files, loc, seededOk>>

\* src/backend/main.py list_images
backend_list_images(w, category_slug, folder_id, limit) ==
    /\ variant = "backend"
    /\ pc[w] = "idle"
    /\ req' = [req EXCEPT ![w] = ListImagesReq(category_slug, folder_id, limit)]
    /\ \E items \in get_documents(image, list_images_filt(category_slug, folder_id), limit) :
          Respond(w, OK(ModelListBody(items, ImageFields)))
    /\ UNCHANGED <<config, now, store, files, loc, seededOk>>

\* ------------------------------------------------------------ folders and images
FolderDoc(category_slug, parent_id) == [category_slug |-> category_slug, parent_id |-> parent_id]
ImageDoc(url, category_slug, folder_id) == [url |-> url, category_slug |-> category_slug, folder_id |-> folder_id]

\* src/main.py create_folder and create_image, up to find_one: raise when no
\* category has the payload's category_slug.
CheckCategory(w, op, doc, insert_pc) ==
    /\ variant = "main"
    /\ pc[w] = "idle"
    /\ req' = [req EXCEPT ![w] = [op |-> op, payload |-> doc]]
    /\ IF ~FindOneHit(category, SlugFilter(doc.category_slug))
          THEN /\ Respond(w, HTTPException(400, "Category not found"))
               /\ loc' = loc
          ELSE /\ pc' = [pc EXCEPT ![w] = insert_pc]
               /\ loc' = [loc EXCEPT ![w] = [payload |-> doc]]
               /\ resp' = resp
    /\ UNCHANGED <<config, now, store, files, seededOk>>

\* src/main.py create_folder, up to find_one
create_folder(w, doc) == CheckCategory(w, "create_folder", doc, "create_folder_insert")

\* src/main.py create_folder, create_document and the return.
create_folder_insert(w) ==
    /\ pc[w] = "create_folder_insert"
    /\ folder' = main_create_document(folder, loc[w].payload)
    /\ nextOid' = nextOid + 1
    /\ Respond(w, OK(SerializedId(str(ObjectId(nextOid)))))
    /\ UNCHANGED <<config, now, category, image, files, req, loc, seededOk>>

\* src/main.py create_image, up to find_one
create_image(w, doc) == CheckCategory(w, "create_image", doc, "create_image_insert")

\* src/main.py create_image, create_document and the return.
create_image_insert(w) ==
    /\ pc[w] = "create_image_insert"
    /\ image' = main_create_document(image, loc[w].payload)
    /\ nextOid' = nextOid + 1
    /\ Respond(w, OK(SerializedId(str(ObjectId(nextOid)))))
    /\ UNCHANGED <<config, now, category, folder, files, req, loc, seededOk>>

\* src/backend/main.py create_folder: create_document with no check before it.
backend_create_folder(w, doc) ==
    /\ variant = "backend"
    /\ pc[w] = "idle"
    /\ req' = [req EXCEPT ![w] = [op |-> "create_folder", payload |-> doc]]
    /\ folder' = create_document(folder, doc)
    /\ nextOid' = nextOid + 1
    /\ Respond(w, OK(response_model(doc, FolderFields)))
    /\ UNCHANGED <<config, now, category, image, files, loc, seededOk>>

\* src/backend/main.py create_image: create_document with no check before it.
backend_create_image(w, doc) ==
    /\ variant = "backend"
    /\ pc[w] = "idle"
    /\ req' = [req EXCEPT ![w] = [op |-> "create_image", payload |-> doc]]
    /\ image' = create_document(image, doc)
    /\ nextOid' = nextOid + 1
    /\ Respond(w, OK(response_model(doc, ImageFields)))
    /\ UNCHANGED <<config, now, category, folder, files, loc, seededOk>>

\* ------------------------------------------------------------ image deletion
\* A URL is the sequence of its parts between slashes:
\* "http://h/uploads/a.jpg" is <<"http:", "", "h", "uploads", "a.jpg">>.
\* A path under UPLOAD_DIR is the sequence of its components.
UploadsAt(url) == {i \in 2..(Len(url) - 1) : url[i] = "uploads"}

\* marker in url, for marker = "/uploads/"
HasMarker(url) == UploadsAt(url) # {}

\* url.split(marker, 1)[1]: what follows the first marker
AfterMarker(url) ==
    LET i == CHOOSE j \in UploadsAt(url) : \A k \in UploadsAt(url) : j <= k
    IN  SubSeq(url, i + 1, Len(url))

\* delete_image with the ObjectId.is_valid check lost: every id is looked up.
delete_image_unvalidated(w, image_id) ==
    /\ variant = "main"
    /\ pc[w] = "idle"
    /\ req' = [req EXCEPT ![w] = [op |-> "delete_image", image_id |-> image_id]]
    /\ LET hit == Find(image, [k \in {"_id"} |-> ObjectId(image_id)]) IN
       IF hit = {}
          THEN /\ Respond(w, HTTPException(404, "Image not found"))
               /\ loc' = loc
          ELSE /\ pc' = [pc EXCEPT ![w] = "delete_image_unlink"]
               /\ loc' = [loc EXCEPT ![w] = [doc |-> CHOOSE d \in hit : TRUE]]
               /\ resp' = resp
    /\ UNCHANGED <<config, now, store, files, seededOk>>

\* src/main.py delete_image, up to find_one.
delete_image(w, image_id) ==
    /\ variant = "main"
    /\ pc[w] = "idle"
    /\ req' = [req EXCEPT ![w] = [op |-> "delete_image", image_id |-> image_id]]
    /\ IF ~is_valid(image_id)
          THEN /\ Respond(w, HTTPException(400, "Invalid image id"))
               /\ loc' = loc
          ELSE LET hit == Find(image, [k \in {"_id"} |-> ObjectId(image_id)]) IN
               IF hit = {}
                  THEN /\ Respond(w, HTTPException(404, "Image not found"))
                       /\ loc' = loc
                  ELSE /\ pc' = [pc EXCEPT ![w] = "delete_image_unlink"]
                       /\ loc' = [loc EXCEPT ![w] = [doc |-> CHOOSE d \in hit : TRUE]]
                       /\ resp' = resp
    /\ UNCHANGED <<config, now, store, files, seededOk>>

\* delete_image_unlink with the except clause lost: an exception of the file
\* removal ends the request with a server error.
delete_image_unlink_raising(w, raises) ==
    /\ pc[w] = "delete_image_unlink"
    /\ LET url == loc[w].doc.url IN
       IF ~raises /\ HasMarker(url) /\ AfterMarker(url) \in files
          THEN files' = files \ {AfterMarker(url)}
          ELSE files' = files
    /\ loc' = [loc EXCEPT ![w] = [doc |-> loc[w].doc, raised |-> raises]]
    /\ IF raises
          THEN Respond(w, HTTPException(500, "Internal Server Error"))
          ELSE /\ pc' = [pc EXCEPT ![w] = "delete_image_delete"]
               /\ resp' = resp
    /\ UNCHANGED <<config, now, store, req, seededOk>>

\* src/main.py delete_image, the try block: the file named by the record's URL
\* is unlinked when it is there; any exception (raises) is swallowed.
\* loc.raised keeps whether one was raised.
delete_image_unlink(w, raises) ==
    /\ pc[w] = "delete_image_unlink"
    /\ LET url == loc[w].doc.url IN
       IF ~raises /\ HasMarker(url) /\ AfterMarker(url) \in files
          THEN files' = files \ {AfterMarker(url)}
          ELSE files' = files
    /\ loc' = [loc EXCEPT ![w] = [doc |-> loc[w].doc, raised |-> raises]]
    /\ pc' = [pc EXCEPT ![w] = "delete_image_delete"]
    /\ UNCHANGED <<config, now, store, req, resp, seededOk>>

\* Collection.delete_one(filt): one matching document leaves, if there is one.
DeleteOne(col, filt) == IF Find(col, filt) = {} THEN col ELSE col \ {CHOOSE d \in Find(col, filt) : TRUE}

\* src/main.py delete_image, delete_one and the return.
delete_image_delete(w) ==
    /\ pc[w] = "delete_image_delete"
    /\ image' = DeleteOne(image, [k \in {"_id"} |-> ObjectId(req[w].image_id)])
    /\ Respond(w, OK([deleted |-> TRUE]))
    /\ UNCHANGED <<config, now, category, folder, nextOid, files, req, loc, seededOk>>

\* ------------------------------------------------------------ image processing
\* A decoded image: its mode, whether img.info has a "transparency" entry, its size.
Img(mode, transparency, w, h) == [mode |-> mode, transparency |-> transparency, w |-> w, h |-> h]

\* has_alpha with the luminance+alpha mode forgotten.
has_alpha_without_LA(img) == img.mode = "RGBA" \/ (img.mode = "P" /\ img.transparency)

\* src/main.py _resize_and_compress: has_alpha
has_alpha(img) == img.mode \in {"RGBA", "LA"} \/ (img.mode = "P" /\ img.transparency)

Max(a, b) == IF a >= b THEN a ELSE b

\* int(round(n * (RESIZE_MAX_SIDE / float(max_side)))), for num = n * RESIZE_MAX_SIDE
\* and den = max_side.  round takes a half to the even neighbour, and the float
\* product of an exact half may fall a last bit to either side of it: at a half,
\* both neighbours are outcomes.
Rounded(num, den) ==
    LET q == num \div den
        r == num % den
    IN  IF 2 * r < den THEN {q} ELSE IF 2 * r > den THEN {q + 1} ELSE {q, q + 1}

\* new_size scaling the shorter side to RESIZE_MAX_SIDE, not the longer.
new_size_by_min_side(img) ==
    LET min_side == IF img.w <= img.h THEN img.w ELSE img.h IN
    IF Max(img.w, img.h) > RESIZE_MAX_SIDE
    THEN Rounded(img.w * RESIZE_MAX_SIDE, min_side) \X Rounded(img.h * RESIZE_MAX_SIDE, min_side)
    ELSE {<<img.w, img.h>>}

\* src/main.py _resize_and_compress: the size of the image that is encoded.
new_size(img) ==
    LET max_side == Max(img.w, img.h) IN
    IF max_side > RESIZE_MAX_SIDE
    THEN Rounded(img.w * RESIZE_MAX_SIDE, max_side) \X Rounded(img.h * RESIZE_MAX_SIDE, max_side)
    ELSE {<<img.w, img.h>>}

\* src/main.py _resize_and_compress: the format chosen.
Encoding(img) ==
    IF has_alpha(img)
    THEN [fmt |-> "WEBP", ext |-> ".webp", mime |-> "image/webp", quality |-> WEBP_QUALITY]
    ELSE [fmt |-> "JPEG", ext |-> ".jpg", mime |-> "image/jpeg", quality |-> JPEG_QUALITY]

\* src/main.py _resize_and_compress: the encoded image (its size and the quality
\* it was saved with stand for its bytes), the extension and the MIME type.
_resize_and_compress(img) ==
    {[size |-> s, saved_quality |-> Encoding(img).quality, ext |-> Encoding(img).ext, mime |-> Encoding(img).mime]
        : s \in new_size(img)}

\* ------------------------------------------------------------ upload
ALLOWED_IMAGE_TYPES == {"image/jpeg", "image/png", "image/webp", "image/jpg", "image/pjpeg"}

\* 1024 * 1024: the bytes of a megabyte, and of one file.read
MiB == 1048576

\* src/main.py upload_image: the content type check.  The body is size bytes.
upload_image(w, content_type, size) ==
    /\ variant = "main"
    /\ pc[w] = "idle"
    /\ req' = [req EXCEPT ![w] = [op |-> "upload", content_type |-> content_type, size |-> size,
                                  files_before |-> files]]
    /\ loc' = [loc EXCEPT ![w] = [raw |-> 0, read_total |-> 0, decoded |-> FALSE]]
    /\ IF content_type \notin ALLOWED_IMAGE_TYPES
          THEN Respond(w, HTTPException(400, "Only JPEG, PNG, or WEBP images are allowed"))
          ELSE /\ pc' = [pc EXCEPT ![w] = "upload_read"]
               /\ resp' = resp
    /\ UNCHANGED <<config, now, store, files, seededOk>>

\* upload_read with the chunk buffered before the cap is checked.
upload_read_buffering_first(w) ==
    /\ pc[w] = "upload_read"
    /\ LET max_bytes == MAX_UPLOAD_MB * 1024 * 1024
           left == req[w].size - loc[w].read_total
           chunk == IF left < MiB THEN left ELSE MiB
           read_total == loc[w].read_total + chunk
       IN  IF chunk = 0
              THEN /\ pc' = [pc EXCEPT ![w] = "upload_decode"]
                   /\ UNCHANGED <<loc, resp>>
              ELSE /\ loc' = [loc EXCEPT ![w].read_total = read_total, ![w].raw = loc[w].raw + chunk]
                   /\ IF read_total > max_bytes
                         THEN Respond(w, HTTPException(413, "File too large"))
                         ELSE UNCHANGED <<pc, resp>>
    /\ UNCHANGED <<config, now, store, files, req, seededOk>>

\* src/main.py upload_image: one turn of the read loop.  file.read gives the next
\* MiB bytes of the body, or what is left of it; raw and read_total are in bytes.
upload_read(w) ==
    /\ pc[w] = "upload_read"
    /\ LET max_bytes == MAX_UPLOAD_MB * 1024 * 1024
           left == req[w].size - loc[w].read_total
           chunk == IF left < MiB THEN left ELSE MiB
           read_total == loc[w].read_total + chunk
       IN  IF chunk = 0
              THEN /\ pc' = [pc EXCEPT ![w] = "upload_decode"]
                   /\ UNCHANGED <<loc, resp>>
              ELSE IF read_total > max_bytes
                      THEN /\ loc' = [loc EXCEPT ![w].read_total = read_total]
                           /\ Respond(w, HTTPException(413, "File too large"))
                      ELSE /\ loc' = [loc EXCEPT ![w].read_total = read_total, ![w].raw = loc[w].raw + chunk]
                           /\ UNCHANGED <<pc, resp>>
    /\ UNCHANGED <<config, now, store, files, req, seededOk>>

Undecodable == [mode |-> "undecodable"]

\* src/main.py upload_image: Image.open, img.load and _resize_and_compress.  img
\* is what the bytes read decode to; encoded is an outcome of the processing.  An
\* image resized to a zero side may fail to resize or to encode (fails).
upload_decode(w, img, encoded, fails) ==
    /\ pc[w] = "upload_decode"
    /\ loc[w].raw = 0 => img = Undecodable
    /\ IF img = Undecodable
          THEN /\ Respond(w, HTTPException(400, "Invalid or unsupported image"))
               /\ loc' = loc
          ELSE /\ encoded \in _resize_and_compress(img)
               /\ fails => (encoded.size[1] = 0 \/ encoded.size[2] = 0)
               /\ loc' = [loc EXCEPT ![w] = [raw |-> loc[w].raw, read_total |-> loc[w].read_total,
                                            decoded |-> TRUE, img |-> img, encoded |-> encoded]]
               /\ IF fails
                     THEN Respond(w, HTTPException(400, "Invalid or unsupported image"))
                     ELSE /\ pc' = [pc EXCEPT ![w] = "upload_save"]
                          /\ resp' = resp
    /\ UNCHANGED <<config, now, store, files, req, seededOk>>

\* src/main.py upload_image: the file is written under a fresh name (uuid is
\* uuid4().hex, a value not drawn before) and the response is built; write_bytes
\* may raise (raises).
upload_save(w, uuid, raises) ==
    /\ pc[w] = "upload_save"
    /\ \A ext \in {".jpg", ".webp"} : <<uuid \o ext>> \notin files
    /\ LET safe_name == uuid \o loc[w].encoded.ext
           final_mime == loc[w].encoded.mime
       IN  IF raises
              THEN /\ Respond(w, HTTPException(500, "Failed to save file"))
                   /\ files' = files
              ELSE /\ files' = files \cup {<<safe_name>>}
                   /\ Respond(w, OK([url |-> <<"http:", "", "h", "uploads", safe_name>>,
                                     filename |-> safe_name,
                                     original_size_bytes |-> loc[w].read_total,
                                     content_type |-> final_mime,
                                     max_side_px |-> RESIZE_MAX_SIDE,
                                     quality |-> IF final_mime = "image/jpeg" THEN JPEG_QUALITY ELSE WEBP_QUALITY]))
    /\ UNCHANGED <<config, now, store, req, loc, seededOk>>

\* ------------------------------------------------------------ specifications
\* A response is taken by its client before any handler moves on.  Return
\* touches only the worker's own pc, req, loc and resp, which no other worker
\* reads, so every run of the handlers has a run that orders it this way.
Ready == \A v \in Workers : pc[v] # "done"

\* The store creates at most max documents.
Within(max) == nextOid' <= max + 1

\* The configuration src/main.py has with none of its variables in the environment.
DefaultConfig ==
    /\ MAX_UPLOAD_MB = 35
    /\ RESIZE_MAX_SIDE = 4096
    /\ JPEG_QUALITY = 92
    /\ WEBP_QUALITY = 92

StoreInit(variants, keys, dirs) ==
    /\ variant \in variants
    /\ envOwnerKey \in keys
    /\ category = {}
    /\ folder = {}
    /\ image = {}
    /\ nextOid = 1
    /\ now = 0
    /\ files \in dirs
    /\ pc = [w \in Workers |-> "idle"]
    /\ req = [w \in Workers |-> NoReq]
    /\ loc = [w \in Workers |-> NoLoc]
    /\ resp = [w \in Workers |-> NoResp]
    /\ seededOk = FALSE

InitWith(variants, keys, dirs) == DefaultConfig /\ StoreInit(variants, keys, dirs)

\* Categories and the admin seed, under either application module and either
\* setting of OWNER_KEY, from an empty store.
Init == InitWith({"main", "backend"}, EnvOwnerKeys, {{}})

Next ==
    \E w \in Workers :
        \/ Return(w)
        \/ Ready /\ \E n \in Names, s \in Slugs : create_category(w, n, s)
        \/ Ready /\ create_category_insert(w) /\ Within(MaxOid)
        \/ Ready /\ \E n \in Names, s \in Slugs : backend_create_category(w, n, s) /\ Within(MaxOid)
        \/ Ready /\ \E k \in OwnerKeys : admin_seed(w, k)
        \/ Ready /\ admin_seed_find(w)
        \/ Ready /\ admin_seed_insert(w) /\ Within(MaxOid)
        \/ Ready /\ admin_seed_count(w)
        \/ Ready /\ \E k \in OwnerKeys : seed(w, k)
        \/ Ready /\ seed_get(w)
        \/ Ready /\ seed_create(w) /\ Within(MaxOid)

Spec == Init /\ [][Next]_vars


\* ------------------------------------------------------------ claims under Spec
Calls(w, op) == pc[w] = "idle" /\ pc'[w] # "idle" /\ req'[w].op = op
Done(w, op) == pc[w] = "done" /\ req[w].op = op
ClientError(r) == r.status \in 400..499

SlugStored(slug) == \E c \in category : c.slug = slug

\* C1: a POST /categories whose slug is the slug of a stored category is answered
\* with an error, whatever its name, and leaves the category collection as it was.
C1_DuplicateSlugRejected ==
    [][\A w \in Workers :
          (Calls(w, "create_category") /\ SlugStored(req'[w].slug))
             => (pc'[w] = "done" /\ ClientError(resp'[w]) /\ category' = category)]_vars

UniqueSlugs == \A a, b \in category : a.slug = b.slug => a = b

\* C2: no two category records have the same slug, in every reachable state of
\* the application module whose handlers check for the slug before they insert
\* (src/main.py), with the check and the insert as separate store operations.
C2_UniqueSlugs == variant = "main" => UniqueSlugs

\* The secret POST /admin/seed compares owner_key with.
ConfiguredSecret == IF variant = "main" THEN envOwnerKey ELSE OWNER_KEY

ReportsCreated(r, n) == "seeded" \in DOMAIN r.body /\ r.body.seeded = n

SeedUnauthorized(w) ==
    (Done(w, "seed") /\ req[w].owner_key # ConfiguredSecret)
       => (resp[w].status = 401 /\ loc[w].created = 0)

Urls == { <<"http:", "", "h", "uploads", "a.jpg">>, <<"http:", "", "h", "uploads", "b.jpg">>,
          <<"http:", "", "cdn", "x.jpg">> }
FileNames == { <<"a.jpg">>, <<"b.jpg">> }
ImageIds == 0..MaxImageOid

\* The uploads directory outlives the process: it starts with any of its files.
InitImages == InitWith({"main"}, {None}, SUBSET FileNames)

NextImages ==
    \E w \in Workers :
        \/ Return(w)
        \/ Ready /\ create_category(w, "Portraits", "portraits")
        \/ Ready /\ create_category_insert(w) /\ Within(MaxImageOid)
        \/ Ready /\ \E u \in Urls, cs \in Slugs : create_image(w, ImageDoc(u, cs, None))
        \/ Ready /\ create_image_insert(w) /\ Within(MaxImageOid)
        \/ Ready /\ \E id \in ImageIds : delete_image(w, id)
        \/ Ready /\ \E raises \in BOOLEAN : delete_image_unlink(w, raises)
        \/ Ready /\ delete_image_delete(w)

SpecImages == InitImages /\ [][NextImages]_vars


\* ------------------------------------------------------------ claims under SpecImages
ImageStored(image_id) == \E d \in image : d["_id"] = ObjectId(image_id)

\* C7: a DELETE /images/{id} that found its record answers {deleted: true} with
\* the record gone from the store, whether the record's file was there or not and
\* whether its removal raised or not.
C7_DeleteRemovesRecord ==
    \A w \in Workers :
        (Done(w, "delete_image") /\ "doc" \in DOMAIN loc[w])
           => /\ resp[w] = OK([deleted |-> TRUE])
              /\ ~ImageStored(req[w].image_id)

\* A DELETE whose file removal raised has returned.
C7_Witness ==
    \E w \in Workers :
        /\ Done(w, "delete_image") /\ "doc" \in DOMAIN loc[w]
        /\ loc[w].raised /\ HasMarker(loc[w].doc.url)

NothingRemoved == image' = image /\ files' = files

\* C8 as claimed: a DELETE /images/{id} is answered 404 when the id is well-formed
\* and matches no image record and when the id is malformed, and removes no image
\* record and no file.
C8_UnknownOrMalformedIs404 ==
    [][\A w \in Workers :
          (Calls(w, "delete_image") /\ (~is_valid(req'[w].image_id) \/ ~ImageStored(req'[w].image_id)))
             => (pc'[w] = "done" /\ resp'[w].status = 404 /\ NothingRemoved)]_vars

\* C8 amended: a DELETE /images/{id} is answered 404 when the id is well-formed and
\* matches no image record, and 400 when the id is malformed; in both cases no
\* image record and no file is removed.
C8_Unknown404Malformed400 ==
    [][\A w \in Workers :
          (Calls(w, "delete_image") /\ (~is_valid(req'[w].image_id) \/ ~ImageStored(req'[w].image_id)))
             => /\ pc'[w] = "done"
                /\ resp'[w].status = IF is_valid(req'[w].image_id) THEN 404 ELSE 400
                /\ NothingRemoved]_vars

\* A DELETE with a malformed id has been answered while an image record and a file exist.
C8_Witness ==
    \E w \in Workers :
        /\ Done(w, "delete_image") /\ ~is_valid(req[w].image_id)
        /\ image # {} /\ files # {}

\* ------------------------------------------------------------ folders, images and the lists
ParentIds == {None, "p1"}
FolderIds == {None, "f1"}
Limits == {<<>>, <<0>>, <<1>>}
ListedUrl == <<"http:", "", "cdn", "x.jpg">>
FolderPayloads == {FolderDoc("portraits", None), FolderDoc("misc", "p1")}
ImagePayloads == {ImageDoc(ListedUrl, "portraits", None), ImageDoc(ListedUrl, "misc", "f1")}

InitLists == InitWith({"main", "backend"}, {None}, {{}})

NextLists ==
    \E w \in Workers :
        \/ Return(w)
        \/ Ready /\ \E s \in Slugs : create_category(w, "Portraits", s)
        \/ Ready /\ create_category_insert(w) /\ Within(MaxListOid)
        \/ Ready /\ \E s \in Slugs : backend_create_category(w, "Portraits", s) /\ Within(MaxListOid)
        \/ Ready /\ \E d \in FolderPayloads : create_folder(w, d)
        \/ Ready /\ create_folder_insert(w) /\ Within(MaxListOid)
        \/ Ready /\ \E d \in ImagePayloads : create_image(w, d)
        \/ Ready /\ create_image_insert(w) /\ Within(MaxListOid)
        \/ Ready /\ \E d \in FolderPayloads : backend_create_folder(w, d) /\ Within(MaxListOid)
        \/ Ready /\ \E d \in ImagePayloads : backend_create_image(w, d) /\ Within(MaxListOid)
        \/ Ready /\ list_categories(w)
        \/ Ready /\ backend_list_categories(w)
        \/ Ready /\ \E cs \in SlugParams, pid \in ParentIds : list_folders(w, cs, pid)
        \/ Ready /\ \E cs \in SlugParams, pid \in ParentIds : backend_list_folders(w, cs, pid)
        \/ Ready /\ \E cs \in SlugParams, fid \in FolderIds, l \in Limits : list_images(w, cs, fid, l)
        \/ Ready /\ \E cs \in SlugParams, fid \in FolderIds, l \in Limits : backend_list_images(w, cs, fid, l)

SpecLists == InitLists /\ [][NextLists]_vars



\* ------------------------------------------------------------ uploads
ContentTypes == {"image/jpeg", "image/png", "text/plain"}
Modes == {"RGB", "L", "RGBA", "LA", "P", "CMYK"}
Images == {Img(m, t, w, h) : m \in Modes, t \in BOOLEAN, w \in 1..MaxDim, h \in 1..MaxDim}
UuidHexes == {"0a"}
Qualities == {80, 92}

\* Body sizes around the chunk and around the cap.
BodySizes ==
    LET max_bytes == MAX_UPLOAD_MB * MiB
    IN  {0, 1, MiB + 1, max_bytes, max_bytes + 1, max_bytes + MiB + 1}

InitUpload ==
    /\ MAX_UPLOAD_MB \in 0..MaxUploadMB
    /\ RESIZE_MAX_SIDE \in 0..MaxSide
    /\ JPEG_QUALITY = 92
    /\ WEBP_QUALITY \in Qualities
    /\ StoreInit({"main"}, {None}, {{}})

\* Uploads share nothing but the directory, where each writes a name of its own:
\* one request at a time shows what each does.
NextUpload ==
    \E w \in {1} :
        \/ Return(w)
        \/ pc[w] = "idle" /\ \E ct \in ContentTypes, n \in BodySizes : upload_image(w, ct, n)
        \/ upload_read(w)
        \/ pc[w] = "upload_decode" /\ \E img \in Images \cup {Undecodable}, fails \in BOOLEAN :
              \E enc \in (IF img = Undecodable THEN {Undecodable} ELSE _resize_and_compress(img)) :
                 upload_decode(w, img, enc, fails)
        \/ pc[w] = "upload_save" /\ \E u \in UuidHexes, raises \in BOOLEAN : upload_save(w, u, raises)

SpecUpload == InitUpload /\ [][NextUpload]_vars

\* ------------------------------------------------------------ claims under SpecUpload
Cap == MAX_UPLOAD_MB * 1024 * 1024

\* C4: the buffer of a POST /upload never holds more than the cap; once the bytes
\* read exceed the cap the request is over, answered 413 at the chunk that crossed
\* it, with no image decoded and no file written.
C4_UploadCapped ==
    \A w \in Workers :
        req[w].op = "upload" =>
            /\ loc[w].raw <= Cap
            /\ loc[w].read_total > Cap
                  => /\ pc[w] = "done" /\ resp[w].status = 413
                     /\ loc[w].read_total - Cap <= MiB
                     /\ loc[w].read_total <= req[w].size
                     /\ ~loc[w].decoded
                     /\ files = req[w].files_before
            /\ (pc[w] = "done" /\ resp[w].status = 413) => loc[w].read_total > Cap

\* An upload was answered 413 with bytes buffered, bytes of the body unread and
\* an earlier upload's file in the directory.
C4_Witness ==
    \E w \in Workers :
        /\ Done(w, "upload") /\ resp[w].status = 413
        /\ loc[w].raw > 0 /\ loc[w].read_total < req[w].size /\ files # {}

Accepted(w) == Done(w, "upload") /\ resp[w].status = 200

\* C5: the longer side of an accepted upload's processed image is at most
\* RESIZE_MAX_SIDE, and the processed image has the decoded size when the longer
\* decoded side is at most RESIZE_MAX_SIDE.
C5_ResizeWithinMaxSide ==
    \A w \in Workers :
        Accepted(w) =>
            LET img == loc[w].img
                out == loc[w].encoded.size
            IN  /\ Max(out[1], out[2]) <= RESIZE_MAX_SIDE
                /\ Max(img.w, img.h) <= RESIZE_MAX_SIDE => out = <<img.w, img.h>>

\* An accepted upload whose wider-than-tall image was scaled down to the cap.
C5_Witness ==
    \E w \in Workers :
        /\ Accepted(w)
        /\ loc[w].img.w > RESIZE_MAX_SIDE /\ loc[w].img.h < loc[w].img.w
        /\ loc[w].encoded.size[1] = RESIZE_MAX_SIDE /\ loc[w].encoded.size[2] < loc[w].img.h

\* C6: an accepted upload is answered image/webp, in a .webp file, exactly when the
\* decoded image has mode RGBA or LA or is a palette image with a transparency
\* entry, and image/jpeg in a .jpg file otherwise; the quality reported is the one
\* configured for that format, with which the image was saved.
C6_WebpIffAlpha ==
    \A w \in Workers :
        Accepted(w) =>
            LET img == loc[w].img
                alpha == img.mode = "RGBA" \/ img.mode = "LA" \/ (img.mode = "P" /\ img.transparency)
                body == resp[w].body
            IN  /\ body.content_type = IF alpha THEN "image/webp" ELSE "image/jpeg"
                /\ body.filename \in {u \o (IF alpha THEN ".webp" ELSE ".jpg") : u \in UuidHexes}
                /\ body.quality = IF alpha THEN WEBP_QUALITY ELSE JPEG_QUALITY
                /\ loc[w].encoded.saved_quality = body.quality

\* An accepted luminance+alpha upload, with the two qualities configured apart.
C6_Witness ==
    \E w \in Workers :
        /\ Accepted(w) /\ loc[w].img.mode = "LA"
        /\ WEBP_QUALITY # JPEG_QUALITY

\* ------------------------------------------------------------ claims under SpecLists
\* The response list has one item per document of docs and no other, each item
\* with the document's values.
Returns(body, docs) ==
    /\ DOMAIN body = {str(d["_id"]) : d \in docs}
    /\ \A d \in docs : \A k \in DOMAIN body[str(d["_id"])] \ {"id"} : body[str(d["_id"])][k] = d[k]

WithSlug(col, category_slug) == {d \in col : d.category_slug = category_slug}

ListsAll(w) ==
    /\ Calls(w, "list_categories") => Returns(resp'[w].body, category)
    /\ (Calls(w, "list_folders") /\ req'[w].category_slug = None /\ req'[w].parent_id = None)
          => Returns(resp'[w].body, folder)
    /\ (Calls(w, "list_images") /\ req'[w].category_slug = None /\ req'[w].folder_id = None
            /\ req'[w].limit = <<>>)
          => Returns(resp'[w].body, image)

\* The lists restricted by category_slug, for the values of it that restricts(_) takes as restricting.
ListsBySlug(w, restricts(_)) ==
    /\ (Calls(w, "list_folders") /\ restricts(req'[w].category_slug) /\ req'[w].parent_id = None)
          => Returns(resp'[w].body, WithSlug(folder, req'[w].category_slug))
    /\ (Calls(w, "list_images") /\ restricts(req'[w].category_slug) /\ req'[w].folder_id = None
            /\ req'[w].limit = <<>>)
          => Returns(resp'[w].body, WithSlug(image, req'[w].category_slug))

Supplied(category_slug) == category_slug # None

\* C9 as claimed: GET /categories, GET /folders and GET /images with no query
\* parameter return every record of their collection; with category_slug supplied
\* (and no other parameter), GET /folders and GET /images return exactly the
\* records whose category_slug is the supplied value.
C9_ListsExactlyTheSlug == [][\A w \in Workers : ListsAll(w) /\ ListsBySlug(w, Supplied)]_vars

\* C9 amended: the same, for a supplied category_slug that is not empty; an empty
\* category_slug is treated as not supplied, and the list is every record.
C9_ListsExactlyTheNonEmptySlug ==
    [][\A w \in Workers :
          /\ ListsAll(w)
          /\ ListsBySlug(w, Truthy)
          /\ (Calls(w, "list_folders") /\ req'[w].category_slug = "" /\ req'[w].parent_id = None)
                => Returns(resp'[w].body, folder)
          /\ (Calls(w, "list_images") /\ req'[w].category_slug = "" /\ req'[w].folder_id = None
                  /\ req'[w].limit = <<>>)
                => Returns(resp'[w].body, image)]_vars

\* GET /folders?category_slug=portraits has returned one folder of two, under src/main.py.
C9_Witness ==
    \E w \in Workers :
        /\ variant = "main" /\ Done(w, "list_folders")
        /\ req[w].category_slug = "portraits" /\ req[w].parent_id = None
        /\ Cardinality(DOMAIN resp[w].body) = 1 /\ Cardinality(folder) = 2

\* C10: every folder record and every image record has the category_slug of a
\* stored category record.
C10_CategoryExists == \A d \in folder \cup image : SlugStored(d.category_slug)

\* ------------------------------------------------------------ create_document
MaxBulk == 2
MaxNow == 2
MaxCreateOid == 3

\* The data argument of create_document: one record, or a list of records.
One(d) == [list |-> FALSE, item |-> d]
List(ds) == [list |-> TRUE, items |-> ds]

\* A call that raised out of create_document.
Raised(exception) == [status |-> 500, detail |-> exception]

\* src/backend/database.py create_document, up to the insert: the clock is read
\* once, every record is stamped with it, and insert_many or insert_one runs.
\* insert_many of an empty list raises.
create_document_insert(w, data) ==
    /\ variant = "backend"
    /\ pc[w] = "idle"
    /\ req' = [req EXCEPT ![w] = [op |-> "create_document", data |-> data]]
    /\ LET stamp == isoformat(now)
       IN  IF data.list
              THEN LET docs == [j \in 1..Len(data.items) |-> Stamped(data.items[j], stamp)]
                   IN  IF docs = <<>>
                          THEN /\ Respond(w, Raised("InvalidOperation"))
                               /\ UNCHANGED <<category, nextOid, loc>>
                          ELSE /\ category' = InsertMany(category, docs)
                               /\ nextOid' = nextOid + Len(docs)
                               /\ loc' = [loc EXCEPT ![w] = [first_id |-> nextOid, n |-> Len(docs)]]
                               /\ pc' = [pc EXCEPT ![w] = "create_document_find"]
                               /\ resp' = resp
              ELSE /\ category' = InsertOne(category, Stamped(data.item, stamp))
                   /\ nextOid' = nextOid + 1
                   /\ loc' = [loc EXCEPT ![w] = [first_id |-> nextOid, n |-> 1]]
                   /\ pc' = [pc EXCEPT ![w] = "create_document_find"]
                   /\ resp' = resp
    /\ UNCHANGED <<config, now, folder, image, files, seededOk>>

\* The _ids insert_many / insert_one reported to worker w.
inserted_ids(w) == {ObjectId(loc[w].first_id + j - 1) : j \in 1..loc[w].n}

\* col.find({"_id": {"$in": result.inserted_ids}}), and find_one of the one _id.
Found(w) == {d \in category : d["_id"] \in inserted_ids(w)}

\* The lists a cursor over the documents of S can yield.
Orders(S) == {s \in [1..Cardinality(S) -> S] : \A d \in S : \E j \in DOMAIN s : s[j] = d}

\* src/backend/database.py create_document, from the find on: the inserted
\* documents are read back (in the cursor's order), each _id is popped into a
\* string id, and a list of exactly one document is returned as that document.
create_document_find(w, inserted) ==
    /\ pc[w] = "create_document_find"
    /\ LET found == Found(w)
       IN  IF req[w].data.list
              THEN /\ inserted \in Orders(found)
                   /\ LET docs == [j \in DOMAIN inserted |-> serialize_doc(inserted[j])]
                      IN  Respond(w, OK(IF Len(docs) = 1 THEN One(docs[1]) ELSE List(docs)))
              ELSE IF found = {}
                      THEN /\ inserted = <<>>
                           /\ Respond(w, Raised("TypeError"))
                      ELSE /\ inserted \in Orders(found)
                           /\ Respond(w, OK(One(serialize_doc(inserted[1]))))
    /\ UNCHANGED <<config, now, store, files, req, loc, seededOk>>

\* The clock moves on.
Tick ==
    /\ now < MaxNow
    /\ now' = now + 1
    /\ UNCHANGED <<config, store, files, pc, req, loc, resp, seededOk>>

Records == {CategoryDoc("Portraits", s) : s \in Slugs}
BulkLists == UNION {[1..n -> Records] : n \in 0..MaxBulk}
DataArgs == {One(d) : d \in Records} \cup {List(ds) : ds \in BulkLists}

InitCreate == InitWith({"backend"}, {None}, {{}})

NextCreate ==
    \/ Tick
    \/ \E w \in Workers :
          \/ Return(w)
          \/ Ready /\ \E data \in DataArgs : create_document_insert(w, data) /\ Within(MaxCreateOid)
          \/ Ready /\ pc[w] = "create_document_find"
                /\ \E inserted \in Orders(Found(w)) : create_document_find(w, inserted)

SpecCreate == InitCreate /\ [][NextCreate]_vars

\* ------------------------------------------------------------ claims under SpecCreate
Created(w) == Done(w, "create_document") /\ resp[w].status = 200

Stamps == {isoformat(t) : t \in 0..MaxNow}

\* The records a call was given, in their order.
GivenRecords(data) == IF data.list THEN data.items ELSE <<data.item>>

\* The records a call returned.
ResultItems(r) == IF r.list THEN {r.items[j] : j \in DOMAIN r.items} ELSE {r.item}

\* Every record given to worker w's call is stored under an _id of its own with
\* one stamp as created_at and updated_at, the same stamp for all of them, and
\* the records returned are exactly these, each with the string of its _id as id
\* and no _id.
StampedInsertedReturned(w) ==
    LET given == GivenRecords(req[w].data)
        items == ResultItems(resp[w].body)
    IN  /\ Cardinality(items) = Len(given)
        /\ resp[w].body.list => Len(resp[w].body.items) = Len(given)
        /\ \E stamp \in Stamps :
              \A j \in DOMAIN given :
                 \E d \in category :
                    /\ d["_id"] = ObjectId(loc[w].first_id + j - 1)
                    /\ d.created_at = stamp /\ d.updated_at = stamp
                    /\ \A k \in DOMAIN given[j] : d[k] = given[j][k]
                    /\ \E x \in items :
                          /\ DOMAIN x = (DOMAIN d \ {"_id"}) \cup {"id"}
                          /\ x.id = str(d["_id"])
                          /\ \A k \in DOMAIN d \ {"_id"} : x[k] = d[k]

\* C11 as claimed: create_document given a list of n >= 1 records stamps them all
\* with one created_at and updated_at value, inserts all n and returns the list
\* of the n inserted records, each with a string id in place of _id; given one
\* record it stamps it the same way and returns that one record.
C11_BulkReturnsAllInserted ==
    \A w \in Workers :
        Created(w) => /\ StampedInsertedReturned(w)
                      /\ resp[w].body.list = req[w].data.list

\* C11 amended: the same, but a list is returned for a list of n >= 2 records
\* only; for a list of exactly one record the record itself is returned, as for
\* one record given alone.
C11_BulkOfOneReturnsTheRecord ==
    \A w \in Workers :
        Created(w) => /\ StampedInsertedReturned(w)
                      /\ resp[w].body.list = (req[w].data.list /\ Len(req[w].data.items) >= 2)

\* A list of two records has been inserted and returned, after the clock moved
\* and beside another call's record.
C11_Witness ==
    \E w \in Workers :
        /\ Created(w) /\ req[w].data.list /\ Len(req[w].data.items) = 2
        /\ resp[w].body.list /\ now > 0 /\ Cardinality(category) = 3

====
